---- MODULE Spec2Model ----
(***************************************************************************)
(* Model of the retrieval engine of multi-document-research-agent:         *)
(* VectorStoreManager (src/agent/vector_store.py) on top of one persistent *)
(* Chroma collection, driven by request threads.                           *)
(*                                                                         *)
(* Numbers with a fractional part in the source are kept as integers:      *)
(* distances, similarities and thresholds are in hundredths (0.7 -> 70).   *)
(***************************************************************************)
EXTENDS Integers, Sequences, FiniteSets, Bags, TLC

\* ------------------------------------------------------------------ bounds
\* Longest input list handed to add_documents / rebuild_from_documents by the
\* single client of Spec.
MaxLen == 3
\* Longest list of the client of SpecRepeat, which calls add_documents twice
\* with the same list.
MaxRepeatLen == 5
\* Longest input list handed over by the two concurrent request threads of
\* SpecConcurrent.
MaxConcLen == 1

\* Most tool calls of one research request (the executor allows 8 iterations).
MaxToolCalls == 1
MaxFetchToolCalls == 3
\* Most results in one answer of the search tool.
MaxWebResults == 2

\* Longest input list handed to add_documents by the client of SpecReingest.
MaxReingestLen == 2

\* Longest input list handed to add_documents by the client of SpecIdentity.
MaxIdentityLen == 2
MaxStatsLen == 2

\* ------------------------------------------------------- program constants
\* len(text.strip()) < 10 is skipped.
MinTextLen == 10
\* add_documents(documents, batch_size=100)
InfoSampleLimit == 10
FetchBelowLen == 200
DefaultBatchSize == 100
\* _clear_collection: batch_size = 1000
ClearBatchSize == 1000
\* similarity_search(query, k=4, score_threshold=0.7), in hundredths
DefaultScoreThreshold == 70
DefaultK == 4
\* search_k = min(k * 2, 20)
OverFetchFactor == 2
MaxSearchK == 20
\* 1 - distance, in hundredths
One == 100
\* keyword_overlap * 0.3, in tenths
KeywordBoostTenths == 3
\* min(len(document) / 500, 1.2): 1.2 * 500 = 600
LengthNorm == 500
LengthCap == 600

\* ------------------------------------------------------------ input domain
\* A metadata key that the dict does not hold.
Absent == "<absent>"

Threads == {1, 2}
\* The thread of the single client of Spec and SpecRepeat.
MainThread == CHOOSE t \in Threads : \A u \in Threads : t <= u

\* The texts of the model, with the facts the code reads off a text: its
\* length, its length once stripped, and its lowercase whitespace tokens.
Texts == {"alpha", "beta", "gamma", "tiny", "gamma_qs", "delta_cl", "delta_qs",
          "docs_line", "docs_page", "docs_error", "gamma_dc"}

TextLen(text) ==
    CASE text = "alpha" -> 650
      [] text = "beta"  -> 400
      [] text = "gamma" -> 250
      [] text = "gamma_qs" -> 282
      [] text = "gamma_dc" -> 270
      [] text = "delta_cl" -> 320
      [] text = "delta_qs" -> 331
      [] text = "docs_line" -> 37
      [] text = "docs_page" -> 419
      [] text = "docs_error" -> 65
      [] OTHER          -> 11

\* len(text.strip()): "tiny" is 5 characters between 6 blanks.
StripLen(text) ==
    CASE text = "tiny" -> 5
      [] OTHER         -> TextLen(text)

TextWords(text) ==
    CASE text = "alpha" -> {"quantum", "computing", "security"}
      [] text = "beta"  -> {"quantum", "network"}
      [] text = "gamma" -> {"security", "network", "cloud"}
      [] text = "gamma_qs" -> {"quantum", "security", "network", "cloud"}
      [] text = "gamma_dc" -> {"docs", "security", "network", "cloud"}
      [] text = "delta_cl" -> {"quantum", "keys"}
      [] text = "delta_qs" -> {"quantum", "security", "keys"}
      [] text = "docs_page" -> {"docs", "keys"}
      [] text \in {"docs_line", "docs_error"} -> {"docs"}
      [] OTHER          -> {"tiny"}

\* "" is a query without a term.
Queries == {"quantum security", "cloud", "network", ""}

\* set(query.lower().split())
QueryWords(query) ==
    CASE query = "quantum security" -> {"quantum", "security"}
      [] query = "network"          -> {"network"}
      [] query = ""                 -> {}
      [] OTHER                      -> {"cloud"}

\* The cosine distance (hundredths) the embedding function gives a query and a
\* stored text; the embedding is deterministic.
Distance(query, text) ==
    CASE query = "quantum security" /\ text = "alpha" -> 20
      [] query = "quantum security" /\ text = "beta"  -> 50
      [] query = "quantum security" /\ text = "gamma" -> 80
      [] query = "cloud" /\ text = "alpha"            -> 120
      [] query = "cloud" /\ text = "beta"             -> 75
      [] query = "cloud" /\ text = "gamma"            -> 30
      [] query = "network" /\ text = "alpha"          -> 40
      [] query = "network" /\ text = "beta"           -> 50
      [] query = "network" /\ text = "gamma"          -> 20
      [] query = "" /\ text = "alpha"                 -> 60
      [] query = "" /\ text = "beta"                  -> 60
      [] query = "" /\ text = "gamma"                 -> 90
      [] query = "quantum security" /\ text = "gamma_qs" -> 60
      [] query = "quantum security" /\ text = "delta_qs" -> 25
      [] query = "quantum security" /\ text = "delta_cl" -> 45
      [] query = "cloud" /\ text = "gamma_qs"         -> 40
      [] query = "cloud" /\ text = "delta_cl"         -> 65
      [] query = "cloud" /\ text = "delta_qs"         -> 90
      [] OTHER                                        -> 100

LocalDoc(text, file, chunk) ==
    [page_content |-> text,
     metadata |-> [source_file |-> file, source |-> Absent,
                   source_type |-> "local_document", chunk_id |-> chunk]]

WebDoc(text, src, chunk) ==
    [page_content |-> text,
     metadata |-> [source_file |-> Absent, source |-> src,
                   source_type |-> "web_search", chunk_id |-> chunk]]

A0 == LocalDoc("alpha", "a.md", "doc_0")
A1 == LocalDoc("beta", "a.md", "doc_1")
W0 == WebDoc("gamma", "example.com", "web_0")

\* The chunk ids the splitter gives the fragments of one file.
ChunkName(i) ==
    CASE i = 0 -> "doc_0" [] i = 1 -> "doc_1" [] i = 2 -> "doc_2"
      [] i = 3 -> "doc_3" [] i = 4 -> "doc_4" [] i = 5 -> "doc_5"
      [] i = 6 -> "doc_6" [] i = 7 -> "doc_7" [] i = 8 -> "doc_8"
      [] i = 9 -> "doc_9" [] i = 10 -> "doc_10" [] OTHER -> "doc_11"

\* A file of as many fragments as get_collection_info samples, and fragments
\* of two other sources.
LongFileDocs == {LocalDoc("alpha", "a.md", ChunkName(i)) : i \in 0..(InfoSampleLimit - 1)}
B0 == LocalDoc("beta", "b.md", "doc_0")
StatsDocs == {B0, W0}
S0 == LocalDoc("tiny", "b.md", "doc_2")

\* The text of A0 in the same file at another chunk position, as after the
\* files of the documents directory are listed in another order; and the text
\* of W0 from the same web source, found by another query or at another rank.
A0Moved == LocalDoc("alpha", "a.md", "doc_5")
W0Again == WebDoc("gamma", "example.com", "web_1")

Docs == {A0, A1, W0, S0}
\* The documents the client of SpecIdentity hands over.
IdentityDocs == {A0, A0Moved, W0, W0Again}
\* The documents of Docs that add_documents does not skip as too short.
ValidDocs == {A0, A1, W0}
\* The documents the concurrent request threads hand over.
ConcDocs == {A0, A1}
Sources == {"a.md", "b.md", "example.com"}
BatchSizes == {2, DefaultBatchSize}
Ks == {1, DefaultK, 21}
ScoreThresholds == {0, 30, DefaultScoreThreshold, One}

\* Sequences over S of length at most n.
SeqUpTo(S, n) == UNION {[1..m -> S] : m \in 0..n}

Min(a, b) == IF a <= b THEN a ELSE b

\* ------------------------------------------------- identity (lines 60-69)
\* hashlib.md5(s).hexdigest()[:8]: a digest of the string, assumed free of
\* collisions on the strings of the model.
Md5Hex8(s) == <<"md5", s>>

\* metadata.get('source_file', metadata.get('source', 'unknown'))
PrimarySource(metadata) ==
    IF metadata.source_file # Absent THEN metadata.source_file
    ELSE IF metadata.source # Absent THEN metadata.source
    ELSE "unknown"

\* metadata.get('chunk_id', '')
ChunkIdOf(metadata) ==
    IF metadata.chunk_id # Absent THEN metadata.chunk_id ELSE ""

\* f"{source_hash}_{content_hash}_{chunk_id}"
GenerateDocumentId(content, metadata) ==
    <<Md5Hex8(PrimarySource(metadata)), Md5Hex8(content), ChunkIdOf(metadata)>>

\* _clean_metadata (lines 71-84): the values as strings, and indexed_at, the
\* time of the cleaning. The model's time is the round of the client's call.
CleanMetadata(metadata, now) == [indexed_at |-> now] @@ metadata

\* What add_documents stages at time now for one document: text, cleaned
\* metadata and id (doc_texts, metadatas and ids hold the three in parallel
\* lists); the id is computed from the metadata as the document has it.
StagedEntry(doc, now) ==
    [id |-> GenerateDocumentId(doc.page_content, doc.metadata),
     page_content |-> doc.page_content,
     metadata |-> CleanMetadata(doc.metadata, now)]

\* A length test on the text as it is, blanks included.
TooShortUntrimmed(doc) == TextLen(doc.page_content) < MinTextLen

\* not text or len(text.strip()) < 10
TooShort(doc) == StripLen(doc.page_content) < MinTextLen

\* --------------------------------------------- the Chroma collection
\* The collection is a bag of entries, so that an identity stored twice would
\* show as two copies.
Entries(coll) == BagToSet(coll)

CollectionIds(coll) == {e.id : e \in Entries(coll)}

\* collection.count()
CollectionCount(coll) == BagCardinality(coll)

\* Chroma validates the ids of one add() call: a repeated id raises
\* DuplicateIDError and nothing of the call is stored.
BatchHasDuplicateIds(b) ==
    \E i, j \in 1..Len(b) : i < j /\ b[i].id = b[j].id

\* An add that stores the first entry it is given and drops the others.
CollectionAddFirst(coll, b) ==
    IF b = <<>> \/ b[1].id \in CollectionIds(coll) THEN coll
    ELSE coll (+) SetToBag({b[1]})

\* An add that replaces the entry stored under an id it is given.
CollectionUpsert(coll, b) ==
    [e \in {x \in Entries(coll) : \A i \in 1..Len(b) : b[i].id # x.id} |-> coll[e]]
       (+) SetToBag({b[i] : i \in 1..Len(b)})

\* collection.add(documents, metadatas, ids) of a valid call: an id already in
\* the collection is left as it is stored, the others are inserted.
CollectionAdd(coll, b) ==
    coll (+) SetToBag({b[i] : i \in {j \in 1..Len(b) : b[j].id \notin CollectionIds(coll)}})

\* A delete that empties the collection whatever ids it is given.
CollectionDeleteAll(coll, idset) == EmptyBag

\* collection.delete(ids=...)
CollectionDelete(coll, idset) ==
    [e \in {x \in Entries(coll) : x.id \notin idset} |-> coll[e]]

\* collection.get(limit=n)['ids']: the ids of n stored entries, all of them
\* when the collection holds no more than n.
CollectionGetLimit(coll, n) ==
    {S \in SUBSET CollectionIds(coll) :
        Cardinality(S) = Min(n, Cardinality(CollectionIds(coll)))}

\* A filter on the metadata key "source" instead of "source_file".
CollectionGetWhereSource(coll, s) ==
    {e.id : e \in {x \in Entries(coll) : x.metadata.source = s}}

\* collection.get(where={"source_file": s})['ids']: the key must be present
\* in the entry's metadata and equal s.
CollectionGetWhereSourceFile(coll, s) ==
    {e.id : e \in {x \in Entries(coll) : x.metadata.source_file = s}}

\* collection.query(query_texts=[q], n_results=n): the n nearest entries,
\* nearest first; entries at the same distance come in either order.
CollectionQuery(coll, q, n) ==
    LET E == Entries(coll)
        m == Min(n, Cardinality(E))
    IN  {s \in [1..m -> E] :
            /\ \A i, j \in 1..m : i # j => s[i] # s[j]
            /\ \A i, j \in 1..m :
                 i < j => Distance(q, s[i].page_content) <= Distance(q, s[j].page_content)
            /\ \A e \in E :
                 (\A i \in 1..m : s[i] # e) =>
                    \A i \in 1..m :
                       Distance(q, s[i].page_content) <= Distance(q, e.page_content)}

\* ------------------------------------------- relevance (lines 243-258)
\* Scores are exact fractions over RelevanceScale(query).
QueryWordCount(query) ==
    IF QueryWords(query) = {} THEN 1 ELSE Cardinality(QueryWords(query))

RelevanceScale(query) == One * 10 * QueryWordCount(query) * LengthNorm

\* A score that is not capped at 1.0.
UncappedRelevanceScore(document, query, similarity) ==
    LET n       == QueryWordCount(query)
        overlap == Cardinality(QueryWords(query) \cap TextWords(document))
        length  == Min(TextLen(document), LengthCap)
    IN  similarity * (10 * n + KeywordBoostTenths * overlap) * length

CalculateRelevanceScore(document, query, similarity) ==
    LET n       == QueryWordCount(query)
        overlap == Cardinality(QueryWords(query) \cap TextWords(document))
        length  == Min(TextLen(document), LengthCap)
        score   == similarity * (10 * n + KeywordBoostTenths * overlap) * length
    IN  Min(score, RelevanceScale(query))

\* One formatted result of similarity_search (lines 223-229).
FormatResult(e, query) ==
    LET distance   == Distance(query, e.page_content)
        similarity == One - distance
    IN  [page_content |-> e.page_content,
         metadata |-> e.metadata,
         score |-> distance,
         similarity |-> similarity,
         relevance_score |-> CalculateRelevanceScore(e.page_content, query, similarity)]

\* A filter that reads score_threshold as the least similarity to keep.
BelowScoreThreshold(similarity, score_threshold) == similarity < score_threshold

\* similarity < (1 - score_threshold): the candidate is dropped.
BelowThreshold(similarity, score_threshold) == similarity < One - score_threshold

RECURSIVE FilterCandidates(_, _, _)
FilterCandidates(cand, query, score_threshold) ==
    IF cand = <<>> THEN <<>>
    ELSE LET r    == FormatResult(Head(cand), query)
             rest == FilterCandidates(Tail(cand), query, score_threshold)
         IN  IF BelowThreshold(r.similarity, score_threshold) THEN rest
             ELSE <<r>> \o rest

\* An insertion that puts a result before the results of equal score.
RECURSIVE InsertBeforeEqual(_, _)
InsertBeforeEqual(r, sorted) ==
    IF sorted = <<>> THEN <<r>>
    ELSE IF Head(sorted).relevance_score > r.relevance_score
         THEN <<Head(sorted)>> \o InsertBeforeEqual(r, Tail(sorted))
         ELSE <<r>> \o sorted

\* list.sort(key=relevance_score, reverse=True): stable, descending.
RECURSIVE InsertByRelevance(_, _)
InsertByRelevance(r, sorted) ==
    IF sorted = <<>> THEN <<r>>
    ELSE IF Head(sorted).relevance_score >= r.relevance_score
         THEN <<Head(sorted)>> \o InsertByRelevance(r, Tail(sorted))
         ELSE <<r>> \o sorted

RECURSIVE SortByRelevance(_)
SortByRelevance(rs) ==
    IF rs = <<>> THEN <<>>
    ELSE InsertByRelevance(rs[Len(rs)], SortByRelevance(SubSeq(rs, 1, Len(rs) - 1)))

\* An over-fetch without the cap.
SearchKUncapped(k) == k * OverFetchFactor

\* search_k = min(k * 2, 20)
SearchK(k) == Min(k * OverFetchFactor, MaxSearchK)

\* formatted_results[:k]
Truncate(rs, k) == SubSeq(rs, 1, Min(k, Len(rs)))

\* What similarity_search returns for the candidates the query gave.
SimilaritySearchResult(cand, query, k, score_threshold) ==
    Truncate(SortByRelevance(FilterCandidates(cand, query, score_threshold)), k)

\* ------------------------------------------- the agent's input domain
\* The queries the language model hands to the search tools.
AgentQueries == {"quantum security", "cloud"}

\* A query the search tool answers with a line that is little more than a url.
FetchQueries == {"docs"}
ToolQueries == AgentQueries \cup FetchQueries

\* The tool calls the executor makes for a question, at most.
ToolCallLimit(question) ==
    IF question \in FetchQueries THEN MaxFetchToolCalls ELSE MaxToolCalls

\* _extract_keywords (research_agent.py 232-244): the words of the query
\* longer than 3 letters that are no stop words, in order.
ExtractKeywords(query) ==
    CASE query = "quantum security" -> <<"quantum", "security">>
      [] query = "cloud"            -> <<"cloud">>
      [] query = "network"          -> <<"network">>
      [] query = "docs"             -> <<"docs">>
      [] OTHER                      -> <<>>

\* f"{keywords[0]} {keywords[1]}"
JoinWords(a, b) ==
    CASE a = "quantum" /\ b = "security" -> "quantum security"
      [] OTHER                           -> "other words"

\* _generate_alternative_queries (246-269); no query of the model holds one of
\* the abbreviations of tech_variants.
GenerateAlternativeQueries(query) ==
    LET keywords == ExtractKeywords(query)
    IN  IF Len(keywords) >= 2 THEN <<JoinWords(keywords[1], keywords[2])>> ELSE <<>>

\* alt_queries[:2]
AltQueries(query) ==
    SubSeq(GenerateAlternativeQueries(query), 1,
           Min(2, Len(GenerateAlternativeQueries(query))))

\* num_results of the direct search (line 172) and of an alternative search
\* (line 178).
DirectNumResults == 3
AltNumResults == 2

\* What the search tool's answer parses into (_parse_search_results,
\* web_searcher.py 83-143): results with the url of a line, the source (the
\* domain of the url) and the content (the line and those after it).
WebResults ==
    {[source |-> "example.com", content |-> "gamma_raw", url |-> "https://example.com/g"],
     [source |-> "other.org", content |-> "delta_raw", url |-> "https://other.org/d"]}

\* The result of a line that holds the url "https://docs.net/p" and no more.
DocsResult ==
    [source |-> "docs.net", content |-> "docs_line_raw", url |-> "https://docs.net/p"]

\* The results the search tool can answer a query with.
WebResultsFor(query) ==
    IF query \in FetchQueries
       THEN {DocsResult, [source |-> "example.com", content |-> "gamma_raw",
                          url |-> "https://example.com/g"]}
       ELSE WebResults

Urls == {r.url : r \in WebResults \cup {DocsResult}}

\* len(content) of a content: the line of 18 characters, the page, the
\* message f"Error fetching content from {url}" of 28 + 18 characters, and the
\* longer contents of the other results.
ContentLen(content) ==
    CASE content = "docs_line_raw"  -> 18
      [] content = "docs_page_raw"  -> 400
      [] content = "docs_error_raw" -> 46
      [] content = "gamma_raw"      -> 231
      [] OTHER                      -> 301

\* fetch_webpage_content (web_searcher.py 188-242): the cached text of the
\* url; else the cleaned text of the page, when the request and the parsing
\* go through, and the error message of line 242 when anything raises.
NotFetched == "<not fetched>"
PageOf(url) == "docs_page_raw"
FetchErrorOf(url) == "docs_error_raw"
FetchWebpageContent(url, ok, cache) ==
    IF cache[url] # NotFetched THEN cache[url]
    ELSE IF ok THEN PageOf(url) ELSE FetchErrorOf(url)

\* search_and_extract, line 253: the page of a result is fetched.
NeedsFetch(r) == r.url # Absent /\ ContentLen(r.content) < FetchBelowLen

\* How the fetches of the results rs may go: per url fetched, whether the
\* request and the parsing go through.
FetchOutcomes(rs) ==
    [{rs[i].url : i \in {j \in 1..Len(rs) : NeedsFetch(rs[j])}} -> BOOLEAN]

\* search_and_extract, lines 251-257: the content of a result after the fetch;
\* whatever fetch_webpage_content returned replaces a shorter content.
ContentAfterFetch(r, fetched) ==
    IF NeedsFetch(r) /\ ContentLen(fetched) > ContentLen(r.content)
       THEN fetched
       ELSE r.content

\* The results with their contents after the fetches f over the cache.
AfterFetch(rs, f, cache) ==
    [i \in 1..Len(rs) |->
        IF NeedsFetch(rs[i])
           THEN [rs[i] EXCEPT !.content =
                    ContentAfterFetch(rs[i],
                       FetchWebpageContent(rs[i].url, f[rs[i].url], cache))]
           ELSE rs[i]]

\* self.content_cache after the fetches f: a page that was fetched is kept, an
\* error message is not.
ContentCacheAfter(rs, f, cache) ==
    [u \in Urls |->
        IF u \in DOMAIN f /\ f[u] /\ cache[u] = NotFetched THEN PageOf(u)
        ELSE cache[u]]

\* _enhance_content (web_searcher.py 280-294): "[Source: {source}]" is put
\* before the content, and "[Related to: {query}]" before that when the text
\* does not hold the query. The content of example.com holds "cloud"; neither
\* content holds "quantum security"; the source docs.net holds "docs".
EnhanceContent(content, query) ==
    CASE content = "gamma_raw" /\ query = "cloud"            -> "gamma"
      [] content = "gamma_raw" /\ query = "quantum security" -> "gamma_qs"
      [] content = "gamma_raw" /\ query = "docs"             -> "gamma_dc"
      [] content = "delta_raw" /\ query = "cloud"            -> "delta_cl"
      [] content = "delta_raw" /\ query = "quantum security" -> "delta_qs"
      [] content = "docs_line_raw"                           -> "docs_line"
      [] content = "docs_page_raw"                           -> "docs_page"
      [] content = "docs_error_raw"                          -> "docs_error"
      [] OTHER                                               -> content

\* The search tool raised; it answered rs; it was not run, the results being
\* in the cache of search_web.
Raised == [raised |-> TRUE, cached |-> FALSE, results |-> <<>>]
Answered(rs) == [raised |-> FALSE, cached |-> FALSE, results |-> rs]
FromCache(rs) == [raised |-> FALSE, cached |-> TRUE, results |-> rs]

\* What one run of the search tool for query may come to, for num_results
\* results asked and at most n results in the answer.
ToolOutcomes(query, num_results, n) ==
    {Raised} \cup
    {Answered(rs) : rs \in {r \in SeqUpTo(WebResultsFor(query), Min(num_results, n)) :
                               \A i, j \in 1..Len(r) : r[i] = r[j] => i = j}}

\* f"web_{hashlib.md5((query + str(i)).encode()).hexdigest()[:8]}", i from 0:
\* one chunk id per query and rank.
WebChunkId(query, i) ==
    CASE query = "quantum security" /\ i = 0 -> "web_qs0"
      [] query = "quantum security" /\ i = 1 -> "web_qs1"
      [] query = "quantum security" /\ i = 2 -> "web_qs2"
      [] query = "cloud" /\ i = 0            -> "web_cl0"
      [] query = "cloud" /\ i = 1            -> "web_cl1"
      [] query = "cloud" /\ i = 2            -> "web_cl2"
      [] query = "docs" /\ i = 0             -> "web_dc0"
      [] query = "docs" /\ i = 1             -> "web_dc1"
      [] OTHER                               -> "web_other"

\* search_and_extract, lines 249-278: one Document per result.
ExtractDocuments(query, rs) ==
    [i \in 1..Len(rs) |->
        WebDoc(EnhanceContent(rs[i].content, query), rs[i].source,
               WebChunkId(query, i - 1))]

\* The keys of agent.search_cache: f"local_{hash(query)}", f"web_{hash(query)}".
CacheKeys == [op : {"local", "web"}, query : ToolQueries]

\* The keys of web_searcher.search_cache: query, num_results (search_type is
\* always "general").
WebCacheKeys == [query : ToolQueries, num_results : {DirectNumResults, AltNumResults}]

\* ------------------------------------------------------------------ state
VARIABLES
    collection,         \* the entries of the Chroma collection "documents"
    collection_exists,  \* the collection self.collection names exists in the client
    collection_metadata, \* the configuration the collection was created with
    backend_up,         \* the Chroma backend answers calls
    pc,                 \* per thread: where its call stands
    call,               \* per thread: the call and its arguments
    idx,                \* add_documents: i of enumerate(documents), from 1
    existing_ids,       \* add_documents: existing_ids
    batch,              \* add_documents: doc_texts / metadatas / ids, staged
    added_count,        \* add_documents: added_count
    skipped_count,      \* add_documents: skipped_count
    result_ids,         \* _clear_collection / delete_by_source: result['ids']
    ret,                \* per thread: the boolean the call returned
    results,            \* per thread: the list similarity_search returned
    pre,                \* history: the collection when the call began
    backend_error,      \* history: a backend call of this call found it unavailable
    round,              \* history: 2 when the client repeats add_documents(L)
    first_post,         \* history: the collection after the first add_documents(L)
    last_delete,        \* history: the delete_by_source that returned last
    observed,           \* history: what the query of similarity_search ran against
    agent_pc,           \* per thread: where its research request stands
    context,            \* agent.current_research_context, one for all requests
    search_cache,       \* agent.search_cache: formatted text per tool and query
    web_cache,          \* web_searcher.search_cache: results per query and count
    content_cache,      \* web_searcher.content_cache: page text per url
    tool,               \* per thread: the tool call in progress and its query
    web_docs,           \* _search_web_resources: web_docs
    text,               \* per thread: the string the tool call returns
    steps,              \* per thread: intermediate_steps of its request
    response,           \* per thread: what research() returned last
    outcomes            \* history: what the search tool did in this tool call

vars == <<collection, collection_exists, collection_metadata, backend_up, pc, call, idx, existing_ids,
          batch, added_count, skipped_count, result_ids, ret, results, pre,
          backend_error, round, first_post, last_delete, observed,
          agent_pc, context, search_cache, web_cache, content_cache, tool, web_docs, text,
          steps, response, outcomes>>

\* The variables of the research agent on top of the store.
agentVars == <<agent_pc, context, search_cache, web_cache, content_cache, tool, web_docs, text,
               steps, response, outcomes>>

NoCall ==
    [op |-> "none", documents |-> <<>>, batch_size |-> DefaultBatchSize,
     source |-> "", query |-> "", k |-> DefaultK,
     score_threshold |-> DefaultScoreThreshold]

NoDelete == [valid |-> FALSE, source |-> "", before |-> EmptyBag]

NoObservation ==
    [coll |-> EmptyBag, during_rebuild |-> FALSE, rebuild_pre |-> EmptyBag,
     rebuild_docs |-> <<>>, n_results |-> 0]

\* No tool call, no text, no request.
NoTool == [op |-> "none", query |-> "", before |-> EmptyBag]
NoText == [kind |-> "none", items |-> <<>>]
NoContext == [question |-> "", request |-> 0]
NoResponse == [question |-> "", start_time_of |-> 0, sources_used |-> <<>>]
NotCached == [cached |-> FALSE, results |-> <<>>]

\* The configuration _initialize_client creates the collection with (lines
\* 45-50); the description, which configures nothing, is left out.
CreatedMetadata == [space |-> "cosine", search_ef |-> 100, M |-> 16]

\* A configuration with another distance metric.
ResetMetadataL2 == [space |-> "l2", search_ef |-> 100, M |-> 16]

\* The configuration reset_collection creates the collection with (lines
\* 330-336); the description and the time of the reset are left out.
ResetMetadata == [space |-> "cosine", search_ef |-> 100, M |-> 16]

\* No collection, no configuration.
NoMetadata == [space |-> "none", search_ef |-> 0, M |-> 0]

\* The state once the agent is constructed over a store that holds coll.
InitWith(coll) ==
    /\ collection = coll
    /\ collection_exists = TRUE
    /\ collection_metadata = CreatedMetadata
    /\ backend_up = TRUE
    /\ pc = [t \in Threads |-> "idle"]
    /\ call = [t \in Threads |-> NoCall]
    /\ idx = [t \in Threads |-> 1]
    /\ existing_ids = [t \in Threads |-> {}]
    /\ batch = [t \in Threads |-> <<>>]
    /\ added_count = [t \in Threads |-> 0]
    /\ skipped_count = [t \in Threads |-> 0]
    /\ result_ids = [t \in Threads |-> {}]
    /\ ret = [t \in Threads |-> FALSE]
    /\ results = [t \in Threads |-> <<>>]
    /\ pre = [t \in Threads |-> EmptyBag]
    /\ backend_error = [t \in Threads |-> FALSE]
    /\ round = [t \in Threads |-> 1]
    /\ first_post = [t \in Threads |-> EmptyBag]
    /\ last_delete = NoDelete
    /\ observed = [t \in Threads |-> NoObservation]
    /\ agent_pc = [t \in Threads |-> "idle"]
    /\ context = NoContext
    /\ search_cache = [key \in CacheKeys |-> NoText]
    /\ web_cache = [key \in WebCacheKeys |-> NotCached]
    /\ content_cache = [u \in Urls |-> NotFetched]
    /\ tool = [t \in Threads |-> NoTool]
    /\ web_docs = [t \in Threads |-> <<>>]
    /\ text = [t \in Threads |-> NoText]
    /\ steps = [t \in Threads |-> <<>>]
    /\ response = [t \in Threads |-> NoResponse]
    /\ outcomes = [t \in Threads |-> <<>>]

\* VectorStoreManager.__init__ on a fresh persist directory (lines 13-58).
Init == InitWith(EmptyBag)

\* A call on self.collection succeeds only while the backend answers and the
\* collection the handle names exists.
Available == backend_up /\ collection_exists

\* The variables of the add_documents loop.
addVars == <<idx, existing_ids, batch, added_count, skipped_count>>
histVars == <<pre, backend_error, round, first_post, last_delete, observed>>
storeVars == <<collection, collection_exists, collection_metadata>>

\* A call begins: its arguments are bound and its locals are fresh.
Begin(t, c, label) ==
    /\ pc[t] = "idle"
    /\ pc' = [pc EXCEPT ![t] = label]
    /\ call' = [call EXCEPT ![t] = c]
    /\ pre' = [pre EXCEPT ![t] = collection]
    /\ UNCHANGED <<storeVars, backend_up, addVars, result_ids, ret, results,
                   backend_error, round, first_post, last_delete, observed>>
    /\ UNCHANGED agentVars

\* ------------------------------------------- add_documents (lines 86-149)
\* line 89: an empty list returns True at once.
AddDocumentsCall(t, docs, bs) ==
    /\ pc[t] = "idle"
    /\ call' = [call EXCEPT ![t] = [NoCall EXCEPT !.op = "add_documents",
                                                  !.documents = docs,
                                                  !.batch_size = bs]]
    /\ pre' = [pre EXCEPT ![t] = collection]
    /\ IF docs = <<>>
          THEN /\ pc' = [pc EXCEPT ![t] = "done"]
               /\ ret' = [ret EXCEPT ![t] = TRUE]
          ELSE /\ pc' = [pc EXCEPT ![t] = "add_get"]
               /\ UNCHANGED ret
    /\ UNCHANGED <<storeVars, backend_up, addVars, result_ids, results,
                   backend_error, round, first_post, last_delete, observed>>

\* lines 97-101: existing_ids = set(self.collection.get()['ids']), the empty
\* set when the call raises.
AddGetExisting(t) ==
    /\ pc[t] = "add_get"
    /\ existing_ids' = [existing_ids EXCEPT ![t] =
                           IF Available THEN CollectionIds(collection) ELSE {}]
    /\ backend_error' = [backend_error EXCEPT ![t] = @ \/ ~Available]
    /\ pc' = [pc EXCEPT ![t] = "add_loop"]
    /\ UNCHANGED <<storeVars, backend_up, call, idx, batch, added_count,
                   skipped_count, result_ids, ret, results, pre, round,
                   first_post, last_delete, observed>>
    /\ UNCHANGED agentVars

\* _add_batch (lines 151-162) raises when the backend is unavailable or Chroma
\* rejects the call for a repeated id.
AddBatchRaises(b) == ~Available \/ BatchHasDuplicateIds(b)

\* lines 103-138: one iteration of the loop over the documents.
AddLoop(t) ==
    /\ pc[t] = "add_loop"
    /\ idx[t] <= Len(call[t].documents)
    /\ LET doc == call[t].documents[idx[t]]
           e   == StagedEntry(doc, round[t])
           nb  == Append(batch[t], e)
       IN  IF TooShort(doc) \/ e.id \in existing_ids[t]
              THEN \* lines 109-112 and 118-121: skipped
                   /\ skipped_count' = [skipped_count EXCEPT ![t] = @ + 1]
                   /\ UNCHANGED <<collection, batch, added_count, backend_error>>
              ELSE \* lines 123-128: staged
                   /\ added_count' = [added_count EXCEPT ![t] = @ + 1]
                   /\ IF Len(nb) >= call[t].batch_size
                         THEN IF AddBatchRaises(nb)
                                 THEN \* lines 135-138: the staged lists are kept
                                      /\ batch' = [batch EXCEPT ![t] = nb]
                                      /\ skipped_count' =
                                            [skipped_count EXCEPT ![t] = @ + 1]
                                      /\ backend_error' =
                                            [backend_error EXCEPT ![t] = @ \/ ~Available]
                                      /\ UNCHANGED collection
                                 ELSE \* lines 132-133
                                      /\ collection' = CollectionAdd(collection, nb)
                                      /\ batch' = [batch EXCEPT ![t] = <<>>]
                                      /\ UNCHANGED <<skipped_count, backend_error>>
                         ELSE /\ batch' = [batch EXCEPT ![t] = nb]
                              /\ UNCHANGED <<collection, skipped_count, backend_error>>
    /\ idx' = [idx EXCEPT ![t] = @ + 1]
    /\ UNCHANGED <<collection_exists, collection_metadata, backend_up, pc, call, existing_ids,
                   result_ids, ret, results, pre, round, first_post, last_delete, observed>>
    /\ UNCHANGED agentVars

\* lines 140-149: the remaining documents are added; a raise here is caught by
\* the outer handler, which returns False.
AddFinish(t) ==
    /\ pc[t] = "add_loop"
    /\ idx[t] > Len(call[t].documents)
    /\ IF batch[t] = <<>>
          THEN /\ ret' = [ret EXCEPT ![t] = TRUE]
               /\ UNCHANGED <<collection, backend_error>>
          ELSE IF AddBatchRaises(batch[t])
                  THEN /\ ret' = [ret EXCEPT ![t] = FALSE]
                       /\ backend_error' = [backend_error EXCEPT ![t] = @ \/ ~Available]
                       /\ UNCHANGED collection
                  ELSE /\ collection' = CollectionAdd(collection, batch[t])
                       /\ ret' = [ret EXCEPT ![t] = TRUE]
                       /\ UNCHANGED backend_error
    /\ pc' = [pc EXCEPT ![t] = "done"]
    /\ UNCHANGED <<collection_exists, collection_metadata, backend_up, call, addVars, result_ids,
                   results, pre, round, first_post, last_delete, observed>>
    /\ UNCHANGED agentVars

\* The client calls add_documents again with the same list, right after the
\* first call returned.
RepeatAdd(t) ==
    /\ pc[t] = "done"
    /\ call[t].op = "add_documents"
    /\ call[t].documents # <<>>
    /\ round[t] = 1
    /\ round' = [round EXCEPT ![t] = 2]
    /\ first_post' = [first_post EXCEPT ![t] = collection]
    /\ pc' = [pc EXCEPT ![t] = "add_get"]
    /\ idx' = [idx EXCEPT ![t] = 1]
    /\ existing_ids' = [existing_ids EXCEPT ![t] = {}]
    /\ batch' = [batch EXCEPT ![t] = <<>>]
    /\ added_count' = [added_count EXCEPT ![t] = 0]
    /\ skipped_count' = [skipped_count EXCEPT ![t] = 0]
    /\ ret' = [ret EXCEPT ![t] = FALSE]
    /\ UNCHANGED <<storeVars, backend_up, call, result_ids, results, pre,
                   backend_error, last_delete, observed>>
    /\ UNCHANGED agentVars

\* ------------------------------ rebuild_from_documents (lines 164-173)
RebuildCall(t, docs) ==
    Begin(t, [NoCall EXCEPT !.op = "rebuild_from_documents", !.documents = docs],
          "clear_get")

\* _clear_collection is over, whatever happened in it: add_documents(documents)
\* begins (line 168), and returns True at once for an empty list.
EnterAdd(t) ==
    IF call[t].documents = <<>>
       THEN /\ pc' = [pc EXCEPT ![t] = "done"]
            /\ ret' = [ret EXCEPT ![t] = TRUE]
       ELSE /\ pc' = [pc EXCEPT ![t] = "add_get"]
            /\ UNCHANGED ret

\* _clear_collection, lines 181-183: result = self.collection.get(limit=1000).
\* A raise is logged as a warning and the clearing is given up (lines 192-193).
ClearGet(t) ==
    /\ pc[t] = "clear_get"
    /\ IF ~Available
          THEN /\ backend_error' = [backend_error EXCEPT ![t] = TRUE]
               /\ EnterAdd(t)
               /\ UNCHANGED result_ids
          ELSE /\ UNCHANGED backend_error
               /\ \E S \in CollectionGetLimit(collection, ClearBatchSize) :
                     IF S = {}
                        THEN EnterAdd(t) /\ UNCHANGED result_ids
                        ELSE /\ result_ids' = [result_ids EXCEPT ![t] = S]
                             /\ pc' = [pc EXCEPT ![t] = "clear_delete"]
                             /\ UNCHANGED ret
    /\ UNCHANGED <<storeVars, backend_up, call, addVars, results, pre, round,
                   first_post, last_delete, observed>>
    /\ UNCHANGED agentVars

\* _clear_collection, lines 185-189: self.collection.delete(ids=result['ids']).
ClearDelete(t) ==
    /\ pc[t] = "clear_delete"
    /\ IF ~Available
          THEN /\ backend_error' = [backend_error EXCEPT ![t] = TRUE]
               /\ EnterAdd(t)
               /\ UNCHANGED collection
          ELSE /\ UNCHANGED backend_error
               /\ collection' = CollectionDelete(collection, result_ids[t])
               /\ IF Cardinality(result_ids[t]) < ClearBatchSize
                     THEN EnterAdd(t)
                     ELSE pc' = [pc EXCEPT ![t] = "clear_get"] /\ UNCHANGED ret
    /\ UNCHANGED <<collection_exists, collection_metadata, backend_up, call, addVars, result_ids,
                   results, pre, round, first_post, last_delete, observed>>
    /\ UNCHANGED agentVars

\* ------------------------------------ delete_by_source (lines 293-315)
DeleteBySourceCall(t, s) ==
    Begin(t, [NoCall EXCEPT !.op = "delete_by_source", !.source = s], "delete_get")

\* lines 300-303 and 309-315: results = self.collection.get(where=...,
\* include=['ids']). The call raises when the backend is unavailable, and may
\* raise on a backend that answers: Chroma validates the include list, and the
\* ids are not among the fields every release lets a caller include.
DeleteGet(t) ==
    /\ pc[t] = "delete_get"
    /\ \E rejected \in BOOLEAN :
          IF ~Available \/ rejected
             THEN /\ backend_error' = [backend_error EXCEPT ![t] = TRUE]
                  /\ ret' = [ret EXCEPT ![t] = FALSE]
                  /\ pc' = [pc EXCEPT ![t] = "done"]
                  /\ UNCHANGED result_ids
             ELSE LET ids == CollectionGetWhereSourceFile(collection, call[t].source)
                  IN  /\ UNCHANGED backend_error
                      /\ result_ids' = [result_ids EXCEPT ![t] = ids]
                      /\ IF ids # {}
                            THEN pc' = [pc EXCEPT ![t] = "delete_delete"] /\ UNCHANGED ret
                            ELSE /\ ret' = [ret EXCEPT ![t] = TRUE]
                                 /\ pc' = [pc EXCEPT ![t] = "done"]
    /\ UNCHANGED <<storeVars, backend_up, call, addVars, results, pre, round,
                   first_post, last_delete, observed>>
    /\ UNCHANGED agentVars

\* lines 305-308 and 313-315
DeleteDelete(t) ==
    /\ pc[t] = "delete_delete"
    /\ IF ~Available
          THEN /\ backend_error' = [backend_error EXCEPT ![t] = TRUE]
               /\ ret' = [ret EXCEPT ![t] = FALSE]
               /\ UNCHANGED collection
          ELSE /\ collection' = CollectionDelete(collection, result_ids[t])
               /\ ret' = [ret EXCEPT ![t] = TRUE]
               /\ UNCHANGED backend_error
    /\ pc' = [pc EXCEPT ![t] = "done"]
    /\ UNCHANGED <<collection_exists, collection_metadata, backend_up, call, addVars, result_ids,
                   results, pre, round, first_post, last_delete, observed>>
    /\ UNCHANGED agentVars

\* ------------------------------------ reset_collection (lines 317-343)
ResetCollectionCall(t) ==
    Begin(t, [NoCall EXCEPT !.op = "reset_collection"], "reset_delete")

\* lines 321-325: client.delete_collection; a raise is logged as a warning.
ResetDelete(t) ==
    /\ pc[t] = "reset_delete"
    /\ IF backend_up /\ collection_exists
          THEN /\ collection' = EmptyBag
               /\ collection_exists' = FALSE
               /\ collection_metadata' = NoMetadata
               /\ UNCHANGED backend_error
          ELSE /\ backend_error' = [backend_error EXCEPT ![t] = @ \/ ~backend_up]
               /\ UNCHANGED storeVars
    /\ pc' = [pc EXCEPT ![t] = "reset_create"]
    /\ UNCHANGED <<backend_up, call, addVars, result_ids, ret, results, pre,
                   round, first_post, last_delete, observed>>
    /\ UNCHANGED agentVars

\* lines 327-343: client.create_collection raises when the backend is
\* unavailable or a collection of that name still exists.
ResetCreate(t) ==
    /\ pc[t] = "reset_create"
    /\ IF backend_up /\ ~collection_exists
          THEN /\ collection_exists' = TRUE
               /\ collection_metadata' = ResetMetadata
               /\ ret' = [ret EXCEPT ![t] = TRUE]
               /\ UNCHANGED backend_error
          ELSE /\ ret' = [ret EXCEPT ![t] = FALSE]
               /\ backend_error' = [backend_error EXCEPT ![t] = @ \/ ~backend_up]
               /\ UNCHANGED <<collection_exists, collection_metadata>>
    /\ pc' = [pc EXCEPT ![t] = "done"]
    /\ UNCHANGED <<collection, backend_up, call, addVars, result_ids, results,
                   pre, round, first_post, last_delete, observed>>
    /\ UNCHANGED agentVars

\* ----------------------------------- similarity_search (lines 195-241)
\* Thread r is inside rebuild_from_documents: it began and has not returned.
Rebuilding(r) ==
    call[r].op = "rebuild_from_documents" /\ pc[r] \notin {"idle", "done"}

SimilaritySearchCall(t, q, k, thr) ==
    Begin(t, [NoCall EXCEPT !.op = "similarity_search", !.query = q, !.k = k,
                            !.score_threshold = thr],
          "search_query")

\* lines 205-241: the query, the filter, the re-ranking; any raise is logged
\* and an empty list is returned.
SearchQuery(t) ==
    /\ pc[t] = "search_query"
    /\ IF ~Available
          THEN /\ backend_error' = [backend_error EXCEPT ![t] = TRUE]
               /\ results' = [results EXCEPT ![t] = <<>>]
          ELSE /\ UNCHANGED backend_error
               /\ \E cand \in CollectionQuery(collection, call[t].query,
                                              SearchK(call[t].k)) :
                     results' = [results EXCEPT ![t] =
                        SimilaritySearchResult(cand, call[t].query, call[t].k,
                                               call[t].score_threshold)]
    /\ observed' = [observed EXCEPT ![t] =
          IF \E r \in Threads \ {t} : Rebuilding(r)
             THEN LET r == CHOOSE x \in Threads \ {t} : Rebuilding(x)
                  IN  [coll |-> collection, during_rebuild |-> TRUE,
                       rebuild_pre |-> pre[r], rebuild_docs |-> call[r].documents,
                       n_results |-> SearchK(call[t].k)]
             ELSE [NoObservation EXCEPT !.coll = collection,
                                        !.n_results = SearchK(call[t].k)]]
    /\ pc' = [pc EXCEPT ![t] = "done"]
    /\ UNCHANGED <<storeVars, backend_up, call, addVars, result_ids, ret, pre,
                   round, first_post, last_delete>>
    /\ UNCHANGED agentVars

\* ------------------------------- get_collection_info (lines 260-291)
\* metadata.get('source_type', 'unknown')
SourceTypeOf(metadata) == metadata.source_type

\* The number of the entries S of coll.
CountOf(coll, S) == IF S = {} THEN 0 ELSE BagCardinality([e \in S |-> coll[e]])

\* sources[source] and types[doc_type] of get_document_stats, lines 392-400.
CountBySource(coll, s) ==
    CountOf(coll, {e \in Entries(coll) : PrimarySource(e.metadata) = s})
CountByType(coll, y) ==
    CountOf(coll, {e \in Entries(coll) : SourceTypeOf(e.metadata) = y})

\* lines 271-288: count is collection.count(); the source types and the number
\* of unique sources are those of the sampled entries.
CollectionInfo(coll, sample) ==
    [count |-> CollectionCount(coll),
     source_types |-> {SourceTypeOf(e.metadata) : e \in sample},
     unique_sources |-> Cardinality({PrimarySource(e.metadata) : e \in sample})]

GetCollectionInfoCall(t) ==
    Begin(t, [NoCall EXCEPT !.op = "get_collection_info"], "info_get")

\* lines 266-291: collection.count() and collection.get(limit=10); a raise is
\* logged and {'count': 0, 'error': ...} returned.
InfoGet(t) ==
    /\ pc[t] = "info_get"
    /\ IF ~Available
          THEN /\ backend_error' = [backend_error EXCEPT ![t] = TRUE]
               /\ results' = [results EXCEPT ![t] = <<[count |-> 0]>>]
          ELSE /\ UNCHANGED backend_error
               /\ \E ids \in CollectionGetLimit(collection, InfoSampleLimit) :
                     results' = [results EXCEPT ![t] =
                        <<CollectionInfo(collection,
                             {e \in Entries(collection) : e.id \in ids})>>]
    /\ pc' = [pc EXCEPT ![t] = "done"]
    /\ UNCHANGED <<storeVars, backend_up, call, addVars, result_ids, ret, pre,
                   round, first_post, last_delete, observed>>
    /\ UNCHANGED agentVars

\* -------------------------------- get_document_stats (lines 380-415)
\* lines 387-410: the counts over the metadata of every entry; an empty
\* collection gives the three keys of line 389 only.
DocumentStats(coll) ==
    IF Entries(coll) = {}
       THEN [total_documents |-> 0, sources |-> <<>>, types |-> <<>>]
       ELSE LET srcs == {PrimarySource(e.metadata) : e \in Entries(coll)}
                typs == {SourceTypeOf(e.metadata) : e \in Entries(coll)}
            IN  [total_documents |-> BagCardinality(coll),
                 unique_sources |-> Cardinality(srcs),
                 sources |-> [s \in srcs |-> CountBySource(coll, s)],
                 types |-> [y \in typs |-> CountByType(coll, y)]]

GetDocumentStatsCall(t) ==
    Begin(t, [NoCall EXCEPT !.op = "get_document_stats"], "stats_get")

\* lines 382-415: collection.get(include=['metadatas']); a raise is logged and
\* {'error': ...} returned.
StatsGet(t) ==
    /\ pc[t] = "stats_get"
    /\ IF ~Available
          THEN /\ backend_error' = [backend_error EXCEPT ![t] = TRUE]
               /\ results' = [results EXCEPT ![t] = <<>>]
          ELSE /\ UNCHANGED backend_error
               /\ results' = [results EXCEPT ![t] = <<DocumentStats(collection)>>]
    /\ pc' = [pc EXCEPT ![t] = "done"]
    /\ UNCHANGED <<storeVars, backend_up, call, addVars, result_ids, ret, pre,
                   round, first_post, last_delete, observed>>
    /\ UNCHANGED agentVars

\* ------------------------------------------------------------- the caller
\* The call returns to its caller: the thread's locals are gone. ld is what
\* the history keeps of the call.
Leave(t, ld) ==
    /\ pc[t] = "done"
    /\ pc' = [pc EXCEPT ![t] = "idle"]
    /\ last_delete' = ld
    /\ call' = [call EXCEPT ![t] = NoCall]
    /\ idx' = [idx EXCEPT ![t] = 1]
    /\ existing_ids' = [existing_ids EXCEPT ![t] = {}]
    /\ batch' = [batch EXCEPT ![t] = <<>>]
    /\ added_count' = [added_count EXCEPT ![t] = 0]
    /\ skipped_count' = [skipped_count EXCEPT ![t] = 0]
    /\ result_ids' = [result_ids EXCEPT ![t] = {}]
    /\ ret' = [ret EXCEPT ![t] = FALSE]
    /\ results' = [results EXCEPT ![t] = <<>>]
    /\ pre' = [pre EXCEPT ![t] = EmptyBag]
    /\ backend_error' = [backend_error EXCEPT ![t] = FALSE]
    /\ round' = [round EXCEPT ![t] = 1]
    /\ first_post' = [first_post EXCEPT ![t] = EmptyBag]
    /\ observed' = [observed EXCEPT ![t] = NoObservation]
    /\ UNCHANGED <<storeVars, backend_up>>

\* The return of the single client: the history keeps a delete_by_source that
\* returned True after deleting entries.
Return(t) ==
    /\ Leave(t, IF call[t].op = "delete_by_source" /\ ret[t] /\ result_ids[t] # {}
                   THEN [valid |-> TRUE, source |-> call[t].source, before |-> pre[t]]
                   ELSE NoDelete)
    /\ UNCHANGED agentVars

\* The return of a concurrent request thread.
ReturnConcurrent(t) == Leave(t, NoDelete) /\ UNCHANGED agentVars

\* --------------------------------------------------------- the environment
\* The Chroma backend stops answering (disk, lock, process), and answers again.
BackendFails ==
    /\ backend_up
    /\ backend_up' = FALSE
    /\ UNCHANGED <<storeVars, pc, call, addVars, result_ids, ret, results, histVars>>
    /\ UNCHANGED agentVars

BackendRecovers ==
    /\ ~backend_up
    /\ backend_up' = TRUE
    /\ UNCHANGED <<storeVars, pc, call, addVars, result_ids, ret, results, histVars>>
    /\ UNCHANGED agentVars

\* ------------------------------------------------------- specifications
\* The steps of a call in progress on thread t.
Step(t) ==
    \/ AddGetExisting(t)
    \/ AddLoop(t)
    \/ AddFinish(t)
    \/ ClearGet(t)
    \/ ClearDelete(t)
    \/ DeleteGet(t)
    \/ DeleteDelete(t)
    \/ ResetDelete(t)
    \/ ResetCreate(t)
    \/ SearchQuery(t)

\* The add_documents calls thread t may begin: lists over D of length at most
\* n, batch sizes of BS.
AddCalls(t, D, n, BS) ==
    /\ \E docs \in SeqUpTo(D, n), bs \in BS : AddDocumentsCall(t, docs, bs)
    /\ UNCHANGED agentVars

\* The other calls thread t may begin; searches take k of KS and a threshold
\* of THS.
OtherCalls(t, D, n, KS, THS) ==
    \/ \E docs \in SeqUpTo(D, n) : RebuildCall(t, docs)
    \/ \E s \in Sources : DeleteBySourceCall(t, s)
    \/ ResetCollectionCall(t)
    \/ \E q \in Queries, k \in KS, thr \in THS : SimilaritySearchCall(t, q, k, thr)

\* One client calling the store, one call after the other, over a backend that
\* may fail and recover at any moment.
Next ==
    \/ AddCalls(MainThread, Docs, MaxLen, BatchSizes)
    \/ OtherCalls(MainThread, Docs, MaxLen, Ks, ScoreThresholds)
    \/ Step(MainThread)
    \/ Return(MainThread)
    \/ BackendFails
    \/ BackendRecovers

Spec == Init /\ [][Next]_vars

\* One client ingesting lists of valid documents, each list once or twice in a
\* row, over a backend that answers.
NextRepeat ==
    \/ AddCalls(MainThread, ValidDocs, MaxRepeatLen, BatchSizes)
    \/ AddGetExisting(MainThread)
    \/ AddLoop(MainThread)
    \/ AddFinish(MainThread)
    \/ RepeatAdd(MainThread)
    \/ Return(MainThread)

SpecRepeat == Init /\ [][NextRepeat]_vars

\* One client ingesting, one list after the other and as across restarts of the
\* process, fragments that differ in their chunk_id only, over a backend that
\* answers.
NextIdentity ==
    \/ AddCalls(MainThread, IdentityDocs, MaxIdentityLen, {DefaultBatchSize})
    \/ AddGetExisting(MainThread)
    \/ AddLoop(MainThread)
    \/ AddFinish(MainThread)
    \/ Return(MainThread)

SpecIdentity == Init /\ [][NextIdentity]_vars

\* One client ingesting fragments of other sources into a collection that holds
\* a long file, resetting the collection and asking for the statistics, over a
\* backend that can stop answering.
InitStats ==
    InitWith(SetToBag({StagedEntry(d, 1) : d \in LongFileDocs}))

NextStats ==
    \/ AddCalls(MainThread, StatsDocs, MaxStatsLen, {DefaultBatchSize})
    \/ AddGetExisting(MainThread)
    \/ AddLoop(MainThread)
    \/ AddFinish(MainThread)
    \/ ResetCollectionCall(MainThread)
    \/ ResetDelete(MainThread)
    \/ ResetCreate(MainThread)
    \/ GetCollectionInfoCall(MainThread)
    \/ InfoGet(MainThread)
    \/ GetDocumentStatsCall(MainThread)
    \/ StatsGet(MainThread)
    \/ Return(MainThread)
    \/ BackendFails
    \/ BackendRecovers

SpecStats == InitStats /\ [][NextStats]_vars

\* One client ingesting lists of valid documents, each list once or twice in a
\* row, over a backend that may fail and recover at any moment.
NextReingest ==
    \/ AddCalls(MainThread, ValidDocs, MaxReingestLen, BatchSizes)
    \/ AddGetExisting(MainThread)
    \/ AddLoop(MainThread)
    \/ AddFinish(MainThread)
    \/ RepeatAdd(MainThread)
    \/ Return(MainThread)
    \/ BackendFails
    \/ BackendRecovers

SpecReingest == Init /\ [][NextReingest]_vars

\* Two request threads of the web application calling the store at once with
\* the default arguments, over a backend that answers.
NextConcurrent ==
    \E t \in Threads :
        \/ AddCalls(t, ConcDocs, MaxConcLen, {DefaultBatchSize})
        \/ OtherCalls(t, ConcDocs, MaxConcLen, {DefaultK}, {DefaultScoreThreshold})
        \/ Step(t)
        \/ ReturnConcurrent(t)

SpecConcurrent == Init /\ [][NextConcurrent]_vars

\* ============================================================ the agent
\* The variables of the store layer.
storeLayerVars == <<collection, collection_exists, collection_metadata, backend_up, pc, call, addVars,
                    result_ids, ret, results, histVars>>

\* The methods VectorStoreManager defines (vector_store.py).
StoreMethods ==
    {"__init__", "_initialize_client", "_generate_document_id", "_clean_metadata",
     "add_documents", "_add_batch", "rebuild_from_documents", "_clear_collection",
     "similarity_search", "_calculate_relevance_score", "get_collection_info",
     "delete_by_source", "reset_collection", "search_with_filters",
     "get_document_stats"}

\* "No relevant local documents found." / "No relevant web resources found."
NothingFoundText == [kind |-> "nothing_found", items |-> <<>>]
\* f"Error searching local documents: {e}" / f"Error searching web resources: {e}"
ErrorText == [kind |-> "error", items |-> <<>>]

\* f"[WEB-{chunk_id}] Query: ...\nContent: ..." for web_docs[:5] (lines 188-197)
FormatWebResults(docs) ==
    [kind |-> "results",
     items |-> [i \in 1..Min(5, Len(docs)) |->
                  [token |-> <<"WEB", ChunkIdOf(docs[i].metadata)>>, doc |-> docs[i]]]]

\* research(), lines 350-359: the request writes the agent's one context.
ResearchBegin(t, question) ==
    /\ agent_pc[t] = "idle"
    /\ agent_pc' = [agent_pc EXCEPT ![t] = "session"]
    /\ context' = [question |-> question, request |-> t]
    /\ steps' = [steps EXCEPT ![t] = <<>>]
    /\ response' = [response EXCEPT ![t] = [NoResponse EXCEPT !.question = question]]
    /\ UNCHANGED <<storeLayerVars, search_cache, web_cache, content_cache, tool, web_docs, text,
                   outcomes>>

\* _search_local_documents (103-157), called by the executor: a cached text is
\* returned (106-110); else line 116 calls similarity_search_with_score, which
\* VectorStoreManager does not define, and the handler at 155-157 returns the
\* error text, which is not cached.
SearchLocalDocuments(t, query) ==
    /\ agent_pc[t] = "session"
    /\ Len(steps[t]) < ToolCallLimit(response[t].question)
    /\ "similarity_search_with_score" \notin StoreMethods
    /\ tool' = [tool EXCEPT ![t] = [op |-> "local", query |-> query,
                                    before |-> collection]]
    /\ text' = [text EXCEPT ![t] =
                  IF search_cache[[op |-> "local", query |-> query]] # NoText
                     THEN search_cache[[op |-> "local", query |-> query]]
                     ELSE ErrorText]
    /\ agent_pc' = [agent_pc EXCEPT ![t] = "tool_done"]
    /\ UNCHANGED <<storeLayerVars, context, search_cache, web_cache, content_cache, web_docs,
                   steps, response, outcomes>>

\* A web tool that searches whatever the agent's cache holds.
SearchWebUncached(t, query) ==
    /\ agent_pc[t] = "session"
    /\ Len(steps[t]) < ToolCallLimit(response[t].question)
    /\ tool' = [tool EXCEPT ![t] = [op |-> "web", query |-> query,
                                    before |-> collection]]
    /\ agent_pc' = [agent_pc EXCEPT ![t] = "web_search"]
    /\ UNCHANGED <<storeLayerVars, context, search_cache, web_cache, content_cache, web_docs,
                   text, steps, response, outcomes>>

\* _search_web_resources, lines 161-169: a cached text is returned, else the
\* searches begin.
SearchWebResources(t, query) ==
    /\ agent_pc[t] = "session"
    /\ Len(steps[t]) < ToolCallLimit(response[t].question)
    /\ tool' = [tool EXCEPT ![t] = [op |-> "web", query |-> query,
                                    before |-> collection]]
    /\ IF search_cache[[op |-> "web", query |-> query]] # NoText
          THEN /\ text' = [text EXCEPT ![t] =
                              search_cache[[op |-> "web", query |-> query]]]
               /\ agent_pc' = [agent_pc EXCEPT ![t] = "tool_done"]
          ELSE /\ agent_pc' = [agent_pc EXCEPT ![t] = "web_search"]
               /\ UNCHANGED text
    /\ UNCHANGED <<storeLayerVars, context, search_cache, web_cache, content_cache, web_docs,
                   steps, response, outcomes>>

\* A search_web that answers a raise of the search tool with a made-up result.
SearchWebFallback(outcome) ==
    IF outcome.raised
       THEN <<[source |-> "web_search_fallback", content |-> "gamma_raw",
               url |-> Absent]>>
       ELSE outcome.results

\* What search_web returns for what happened (web_searcher.py 38-40, 59,
\* 61-63): a raise of the search tool becomes the empty list.
SearchWebReturn(outcome) == IF outcome.raised THEN <<>> ELSE outcome.results

\* One search_and_extract of _search_web_resources: the direct search (line
\* 172) or the next alternative search (176-179), through search_web
\* (web_searcher.py 33-63). The search tool answers with at most n results.
SearchAndExtract(t, n) ==
    /\ agent_pc[t] = "web_search"
    /\ Len(outcomes[t]) <= Len(AltQueries(tool[t].query))
    /\ LET done  == Len(outcomes[t])
           query == IF done = 0 THEN tool[t].query
                    ELSE AltQueries(tool[t].query)[done]
           num   == IF done = 0 THEN DirectNumResults ELSE AltNumResults
           key   == [query |-> query, num_results |-> num]
       IN  \E outcome \in IF web_cache[key].cached
                             THEN {FromCache(web_cache[key].results)}
                             ELSE ToolOutcomes(query, num, n) :
           \E f \in FetchOutcomes(SearchWebReturn(outcome)) :
              /\ outcomes' = [outcomes EXCEPT ![t] = Append(@, outcome)]
              /\ web_cache' =
                    IF outcome.raised \/ outcome.cached THEN web_cache
                    ELSE [web_cache EXCEPT ![key] =
                             [cached |-> TRUE, results |-> outcome.results]]
              /\ content_cache' =
                    ContentCacheAfter(SearchWebReturn(outcome), f, content_cache)
              /\ web_docs' = [web_docs EXCEPT ![t] =
                    @ \o ExtractDocuments(query,
                            AfterFetch(SearchWebReturn(outcome), f, content_cache))]
    /\ UNCHANGED <<storeLayerVars, agent_pc, context, search_cache, tool, text,
                   steps, response>>

\* The searches of this tool call are over.
SearchesOver(t) ==
    agent_pc[t] = "web_search" /\ Len(outcomes[t]) = 1 + Len(AltQueries(tool[t].query))

\* lines 181-182 and 199-201: no web document.
WebNothingFound(t) ==
    /\ SearchesOver(t)
    /\ web_docs[t] = <<>>
    /\ text' = [text EXCEPT ![t] = NothingFoundText]
    /\ search_cache' = [search_cache EXCEPT
                           ![[op |-> "web", query |-> tool[t].query]] = NothingFoundText]
    /\ agent_pc' = [agent_pc EXCEPT ![t] = "tool_done"]
    /\ UNCHANGED <<storeLayerVars, context, web_cache, content_cache, tool, web_docs, steps,
                   response, outcomes>>

\* line 185: self.vector_store.add_documents(web_docs) begins.
WebIngest(t) ==
    /\ SearchesOver(t)
    /\ web_docs[t] # <<>>
    /\ AddDocumentsCall(t, web_docs[t], DefaultBatchSize)
    /\ agent_pc' = [agent_pc EXCEPT ![t] = "web_ingest"]
    /\ UNCHANGED <<context, search_cache, web_cache, content_cache, tool, web_docs, text, steps,
                   response, outcomes>>

\* lines 185-201: add_documents has returned, its result is dropped; the text
\* is formatted and cached.
WebFormat(t) ==
    /\ agent_pc[t] = "web_ingest"
    /\ Leave(t, NoDelete)
    /\ text' = [text EXCEPT ![t] = FormatWebResults(web_docs[t])]
    /\ search_cache' = [search_cache EXCEPT
                           ![[op |-> "web", query |-> tool[t].query]] =
                              FormatWebResults(web_docs[t])]
    /\ agent_pc' = [agent_pc EXCEPT ![t] = "tool_done"]
    /\ UNCHANGED <<context, web_cache, content_cache, tool, web_docs, steps, response, outcomes>>

\* The tool call returns its text to the executor, which keeps it in the
\* intermediate steps of the request.
ToolReturn(t) ==
    /\ agent_pc[t] = "tool_done"
    /\ steps' = [steps EXCEPT ![t] =
                   Append(@, [op |-> tool[t].op, query |-> tool[t].query,
                              text |-> text[t]])]
    /\ agent_pc' = [agent_pc EXCEPT ![t] = "session"]
    /\ tool' = [tool EXCEPT ![t] = NoTool]
    /\ text' = [text EXCEPT ![t] = NoText]
    /\ web_docs' = [web_docs EXCEPT ![t] = <<>>]
    /\ outcomes' = [outcomes EXCEPT ![t] = <<>>]
    /\ UNCHANGED <<storeLayerVars, context, search_cache, web_cache, content_cache, response>>

\* _analyze_content (207-230), called by the executor: the model's answer
\* behind the marker "[ANALYSIS]", or, when the model raises, an error text
\* without the marker.
AnalysisText == [kind |-> "analysis", items |-> <<>>]

AnalyzeContent(t, content) ==
    /\ agent_pc[t] = "session"
    /\ Len(steps[t]) < ToolCallLimit(response[t].question)
    /\ tool' = [tool EXCEPT ![t] = [op |-> "analysis", query |-> content,
                                    before |-> collection]]
    /\ \E answered \in BOOLEAN :
          text' = [text EXCEPT ![t] = IF answered THEN AnalysisText ELSE ErrorText]
    /\ agent_pc' = [agent_pc EXCEPT ![t] = "tool_done"]
    /\ UNCHANGED <<storeLayerVars, context, search_cache, web_cache, content_cache,
                   web_docs, steps, response, outcomes>>

\* The place of a chunk id among the chunk ids, as strings compare.
ChunkRank(chunk_id) ==
    CASE chunk_id = "doc_0"     -> 0
      [] chunk_id = "doc_1"     -> 1
      [] chunk_id = "web_0"     -> 2
      [] chunk_id = "web_cl0"   -> 3
      [] chunk_id = "web_cl1"   -> 4
      [] chunk_id = "web_cl2"   -> 5
      [] chunk_id = "web_dc0"   -> 6
      [] chunk_id = "web_dc1"   -> 7
      [] chunk_id = "web_other" -> 8
      [] chunk_id = "web_qs0"   -> 9
      [] chunk_id = "web_qs1"   -> 10
      [] OTHER                  -> 11

\* The place of a source string among the source strings, as strings compare:
\* "ANALYSIS-synthesis" before every "LOCAL-..." before every "WEB-...".
AnalysisToken == <<"ANALYSIS", "synthesis">>
TokenRank(token) ==
    CASE token[1] = "ANALYSIS" -> 0
      [] token[1] = "LOCAL"    -> 1 + ChunkRank(token[2])
      [] OTHER                 -> 13 + ChunkRank(token[2])

\* The tokens of the observations in the order they are met, every occurrence.
RECURSIVE TokensInOrder(_)
TokensInOrder(ss) ==
    IF ss = <<>> THEN <<>>
    ELSE [j \in 1..Len(Head(ss).text.items) |-> Head(ss).text.items[j].token]
            \o (IF Head(ss).text.kind = "analysis" THEN <<AnalysisToken>> ELSE <<>>)
            \o TokensInOrder(Tail(ss))

\* sorted(list(sources)), line 424.
RECURSIVE SortedTokens(_)
SortedTokens(S) ==
    IF S = {} THEN <<>>
    ELSE LET least == CHOOSE x \in S : \A y \in S : TokenRank(x) <= TokenRank(y)
         IN  <<least>> \o SortedTokens(S \ {least})

\* _extract_enhanced_sources (403-424): the set of the "LOCAL-" and "WEB-"
\* tokens in the observations, with "ANALYSIS-synthesis" when an observation
\* holds the marker, sorted.
ExtractEnhancedSources(ss) ==
    SortedTokens(
       UNION {{ss[i].text.items[j].token : j \in 1..Len(ss[i].text.items)}
                 \cup (IF ss[i].text.kind = "analysis" THEN {AnalysisToken} ELSE {}) :
              i \in 1..Len(ss)})

\* research(), lines 364-387: the response is built; its total_research_time
\* is counted from the start_time of the agent's context.
ResearchEnd(t) ==
    /\ agent_pc[t] = "session"
    /\ response' = [response EXCEPT ![t] =
                       [question |-> @.question,
                        start_time_of |-> context.request,
                        sources_used |-> ExtractEnhancedSources(steps[t])]]
    /\ agent_pc' = [agent_pc EXCEPT ![t] = "idle"]
    /\ UNCHANGED <<storeLayerVars, context, search_cache, web_cache, content_cache, tool, web_docs,
                   text, steps, outcomes>>

\* The steps of a research request on thread t whose questions and tool
\* queries are in Q.
AgentSteps(t, Q) ==
    \/ \E question \in Q : ResearchBegin(t, question)
    \/ \E query \in Q : SearchLocalDocuments(t, query)
    \/ \E query \in Q : SearchWebResources(t, query)
    \/ \E content \in Q : AnalyzeContent(t, content)
    \/ SearchAndExtract(t, MaxWebResults)
    \/ WebNothingFound(t)
    \/ WebIngest(t)
    \/ AddGetExisting(t)
    \/ AddLoop(t)
    \/ AddFinish(t)
    \/ WebFormat(t)
    \/ ToolReturn(t)
    \/ ResearchEnd(t)

\* The steps of a research request on thread t.
AgentStep(t) == AgentSteps(t, AgentQueries)

\* The agent constructed over a documents directory that holds a.md
\* (_load_initial_documents, lines 59-67).
InitLoaded == InitWith(SetToBag({StagedEntry(A0, 1), StagedEntry(A1, 1)}))

\* One research request after the other, over a backend that may fail and
\* recover at any moment.
NextAgent ==
    \/ AgentStep(MainThread)
    \/ BackendFails
    \/ BackendRecovers

SpecAgent == InitLoaded /\ [][NextAgent]_vars

\* One research request after the other, each of up to MaxFetchToolCalls tool
\* calls, about a query one of whose results needs its page fetched, over a
\* backend that may fail and recover at any moment.
NextFetch ==
    \/ AgentSteps(MainThread, FetchQueries)
    \/ BackendFails
    \/ BackendRecovers

SpecFetch == InitLoaded /\ [][NextFetch]_vars

\* Two research requests at once on the one agent of the web application
\* (app.py, lines 23 and 80), each using the local search tool.
NextAgentConcurrent ==
    \E t \in Threads :
       \/ \E question \in AgentQueries : ResearchBegin(t, question)
       \/ \E query \in AgentQueries : SearchLocalDocuments(t, query)
       \/ ToolReturn(t)
       \/ ResearchEnd(t)

SpecAgentConcurrent == InitLoaded /\ [][NextAgentConcurrent]_vars

\* ================================================================= claims
\* Thread t stands at the return of a call of operation op.
Returned(t, op) == pc[t] = "done" /\ call[t].op = op

\* The number of stored entries that carry identity id.
CopiesOfId(coll, id) ==
    LET E == {e \in Entries(coll) : e.id = id}
    IN  IF E = {} THEN 0 ELSE BagCardinality([e \in E |-> coll[e]])

\* The identity add_documents derives for the i-th document of a list.
IdAt(docs, i) == GenerateDocumentId(docs[i].page_content, docs[i].metadata)

\* ---------------------------------------------------------------- C1
\* C1: the collection holds at most one entry per fragment identity, and an
\* add_documents call over a working backend whose list holds the same valid
\* fragment at two positions leaves that fragment stored exactly once.
C1Claim ==
    /\ \A e \in Entries(collection) : CopiesOfId(collection, e.id) = 1
    /\ \A t \in Threads :
          Returned(t, "add_documents") /\ ~backend_error[t] =>
             \A i, j \in 1..Len(call[t].documents) :
                (i < j /\ call[t].documents[i] = call[t].documents[j]
                       /\ ~TooShort(call[t].documents[i]))
                   => CopiesOfId(collection, IdAt(call[t].documents, i)) = 1

\* ---------------------------------------------------------------- C2
\* C2: when add_documents(L) is called twice in a row, the second call leaves
\* the count and the identities of the collection as the first call left them.
C2Claim ==
    \A t \in Threads :
       pc[t] = "done" /\ round[t] = 2 =>
          /\ CollectionCount(collection) = CollectionCount(first_post[t])
          /\ CollectionIds(collection) = CollectionIds(first_post[t])

\* ---------------------------------------------------------------- C3
\* C3 as stated: once delete_by_source(s) has returned True, the collection
\* holds no fragment whose primary source key (source_file, else source) is s.
C3Claim ==
    \A t \in Threads :
       Returned(t, "delete_by_source") /\ ret[t] =>
          \A e \in Entries(collection) : PrimarySource(e.metadata) # call[t].source

\* C3, amended: once delete_by_source(s) has returned True, the collection
\* holds no fragment whose source_file metadata is s, and the search that
\* follows the delete returns no fragment whose source_file is s.
C3Amended ==
    /\ \A t \in Threads :
          Returned(t, "delete_by_source") /\ ret[t] =>
             \A e \in Entries(collection) : e.metadata.source_file # call[t].source
    /\ \A t \in Threads :
          Returned(t, "similarity_search") /\ last_delete.valid =>
             \A i \in 1..Len(results[t]) :
                results[t][i].metadata.source_file # last_delete.source

\* A search right after a delete_by_source that removed fragments of its source
\* returns fragments of another source.
C3Witness ==
    \E t \in Threads :
       /\ Returned(t, "similarity_search")
       /\ last_delete.valid
       /\ \E e \in Entries(last_delete.before) :
             e.metadata.source_file = last_delete.source
       /\ results[t] # <<>>

\* ---------------------------------------------------------------- C4
\* The entries of coll whose source_file metadata is s.
OfSourceFile(coll, s) == {e \in Entries(coll) : e.metadata.source_file = s}

Rebuilt(docs) ==
    SetToBag({StagedEntry(docs[i], 1) : i \in {j \in 1..Len(docs) : ~TooShort(docs[j])}})

\* C5: a similarity_search that began on the collection a rebuild began on,
\* and whose query runs while the other thread is inside that
\* rebuild_from_documents, runs against the collection as it was when the
\* rebuild began or as the completed rebuild leaves it.
C5Claim ==
    \A t \in Threads :
       (/\ Returned(t, "similarity_search")
        /\ observed[t].during_rebuild
        /\ pre[t] = observed[t].rebuild_pre) =>
          \/ observed[t].coll = observed[t].rebuild_pre
          \/ observed[t].coll = Rebuilt(observed[t].rebuild_docs)

\* ---------------------------------------------------------------- C6
\* C6: two concurrent add_documents calls never both hold the same identity
\* staged for insertion, each having found it absent from the collection.
C6Claim ==
    \A t, u \in Threads :
       (/\ t # u
        /\ call[t].op = "add_documents" /\ pc[t] = "add_loop"
        /\ call[u].op = "add_documents" /\ pc[u] = "add_loop")
       => \A i \in 1..Len(batch[t]), j \in 1..Len(batch[u]) :
             batch[t][i].id # batch[u][j].id

\* ---------------------------------------------------------------- C7
\* The identities add_documents derives for the documents of a list.
IdsOf(docs) == {IdAt(docs, i) : i \in 1..Len(docs)}

\* C7: whatever rebuild_from_documents returns, and also when its clearing step
\* met a backend error, the collection does not hold both a fragment from
\* before the rebuild that the new list does not contain and a fragment of the
\* new list that was not stored before.
C7Claim ==
    \A t \in Threads :
       Returned(t, "rebuild_from_documents") =>
          ~ /\ \E e \in Entries(collection) :
                  e \in Entries(pre[t]) /\ e.id \notin IdsOf(call[t].documents)
            /\ \E e \in Entries(collection) :
                  e \notin Entries(pre[t]) /\ e.id \in IdsOf(call[t].documents)

\* ---------------------------------------------------------------- C8
\* C8: an add_documents call over a working backend stores every valid
\* fragment of its list that the list holds once, whatever happened to the
\* other fragments of the list.
C8Claim ==
    \A t \in Threads :
       Returned(t, "add_documents") /\ ~backend_error[t] =>
          \A i \in 1..Len(call[t].documents) :
             (/\ ~TooShort(call[t].documents[i])
              /\ \A j \in 1..Len(call[t].documents) :
                    j # i => call[t].documents[j] # call[t].documents[i])
             => IdAt(call[t].documents, i) \in CollectionIds(collection)

\* ---------------------------------------------------------------- C9
\* C9: a similarity_search whose query failed does not return the empty list,
\* which is what a search that found nothing returns.
C9Claim ==
    \A t \in Threads :
       Returned(t, "similarity_search") /\ backend_error[t] => results[t] # <<>>

\* --------------------------------------------------------------- C10
\* C10 as stated: no returned fragment has a similarity below
\* 1 - score_threshold, and a search with the default score_threshold returns
\* no fragment whose similarity is below 0.7.
C10Claim ==
    \A t \in Threads :
       Returned(t, "similarity_search") =>
          \A i \in 1..Len(results[t]) :
             /\ results[t][i].similarity >= 100 - call[t].score_threshold
             /\ call[t].score_threshold = DefaultScoreThreshold
                   => results[t][i].similarity >= 70

\* C10, amended: no returned fragment has a similarity (1 - distance, the
\* distance being the result's score) below 1 - score_threshold; the default
\* score_threshold is 0.7, so a search with the default returns no fragment
\* whose similarity is below 0.3.
C10Amended ==
    \A t \in Threads :
       Returned(t, "similarity_search") =>
          \A i \in 1..Len(results[t]) :
             /\ results[t][i].similarity = 100 - results[t][i].score
             /\ results[t][i].similarity >= 100 - call[t].score_threshold
             /\ call[t].score_threshold = DefaultScoreThreshold
                   => results[t][i].similarity >= 30

\* A search with the default score_threshold dropped a stored fragment that k
\* had room for, and returned one whose similarity is between 0.3 and 0.7.
C10Witness ==
    \E t \in Threads :
       /\ Returned(t, "similarity_search")
       /\ call[t].score_threshold = DefaultScoreThreshold
       /\ Len(results[t]) < Min(call[t].k, CollectionCount(collection))
       /\ \E i \in 1..Len(results[t]) :
             results[t][i].similarity < 70 /\ results[t][i].similarity >= 30

\* --------------------------------------------------------------- C11
\* C11: in every search result the relevance scores do not increase from one
\* fragment to the next, fragments of equal relevance score stay in candidate
\* order (nearest first), and there are at most k fragments.
C11Theorem ==
    \A t \in Threads :
       Returned(t, "similarity_search") =>
          /\ Len(results[t]) <= call[t].k
          /\ \A i, j \in 1..Len(results[t]) :
                i < j =>
                   /\ results[t][i].relevance_score >= results[t][j].relevance_score
                   /\ results[t][i].relevance_score = results[t][j].relevance_score
                         => results[t][i].score <= results[t][j].score

\* A search returned three fragments: the first is not the nearest, and the
\* other two have the same relevance score at different distances.
C11Witness ==
    \E t \in Threads :
       /\ Returned(t, "similarity_search")
       /\ Len(results[t]) = 3
       /\ results[t][1].score > results[t][2].score
       /\ results[t][2].relevance_score = results[t][3].relevance_score
       /\ results[t][2].score < results[t][3].score

\* --------------------------------------------------------------- C12
\* C12: a search that reaches the index asks it for min(2k, 20) nearest
\* neighbours, and returns no more fragments than it asked for.
C12Theorem ==
    \A t \in Threads :
       Returned(t, "similarity_search") /\ ~backend_error[t] =>
          /\ observed[t].n_results =
                IF 2 * call[t].k <= 20 THEN 2 * call[t].k ELSE 20
          /\ Len(results[t]) <= observed[t].n_results

\* A search with k above 20 asked the index for 20 neighbours.
C12Witness ==
    \E t \in Threads :
       /\ Returned(t, "similarity_search")
       /\ ~backend_error[t]
       /\ call[t].k > 20
       /\ observed[t].n_results = 20
       /\ results[t] # <<>>

\* --------------------------------------------------------------- C13
\* similarity * (1 + 0.3 * keyword_overlap) * min(len(text) / 500, 1.2) of a
\* result, in units of 1 / (One * 10 * terms * LengthNorm), the overlap being 0
\* and terms counting 1 for a query without a term.
RawRelevance(r, query) ==
    LET terms   == IF QueryWords(query) = {} THEN 1
                   ELSE Cardinality(QueryWords(query))
        common  == Cardinality({w \in QueryWords(query) : w \in TextWords(r.page_content)})
        length  == IF TextLen(r.page_content) <= 600 THEN TextLen(r.page_content) ELSE 600
    IN  r.similarity * (10 * terms + 3 * common) * length

\* 1.0 in the same units.
FullRelevance(query) ==
    One * 10 * LengthNorm *
       (IF QueryWords(query) = {} THEN 1 ELSE Cardinality(QueryWords(query)))

\* C13: the relevance score of every returned fragment is
\* min(1.0, similarity * (1 + 0.3 * keyword_overlap) * min(len(text)/500, 1.2)),
\* so no returned score is above 1.0.
C13Theorem ==
    \A t \in Threads :
       Returned(t, "similarity_search") =>
          \A i \in 1..Len(results[t]) :
             LET r    == results[t][i]
                 raw  == RawRelevance(r, call[t].query)
                 full == FullRelevance(call[t].query)
             IN  /\ r.relevance_score = IF raw <= full THEN raw ELSE full
                 /\ r.relevance_score <= full

\* A search returned a fragment whose uncapped score is above 1.0 and another
\* one below it.
C13Witness ==
    \E t \in Threads :
       /\ Returned(t, "similarity_search")
       /\ \E i, j \in 1..Len(results[t]) :
             /\ RawRelevance(results[t][i], call[t].query) > FullRelevance(call[t].query)
             /\ RawRelevance(results[t][j], call[t].query) < FullRelevance(call[t].query)
             /\ RawRelevance(results[t][j], call[t].query) > 0

\* --------------------------------------------------------------- C14
\* The stored entries that have the text and the primary source key of doc.
SameTextAndSource(coll, doc) ==
    {e \in Entries(coll) :
        /\ e.page_content = doc.page_content
        /\ PrimarySource(e.metadata) = PrimarySource(doc.metadata)}

\* C14: whatever chunk_id they carry, fragments of the same text and the same
\* primary source key are one identity: after an add_documents call that
\* returned True, the collection holds one entry for the text and source of
\* each document of the list.
C14Claim ==
    \A t \in Threads :
       Returned(t, "add_documents") /\ ret[t] =>
          \A i \in 1..Len(call[t].documents) :
             Cardinality(SameTextAndSource(collection, call[t].documents[i])) = 1

\* ------------------------------------------------------------ citations
\* What identifies the source a fragment came from: its type and its name (a
\* web result's url is one per name in WebResults).
SourceOf(doc) == <<doc.metadata.source_type, PrimarySource(doc.metadata)>>

CitationsIn(txt) ==
    {[token |-> txt.items[j].token, source |-> SourceOf(txt.items[j].doc)] :
        j \in 1..Len(txt.items)}

\* The citations of the research session of thread t: the token and the source
\* of every item in the texts its tool calls have produced.
Citations(t) ==
    CitationsIn(text[t]) \cup UNION {CitationsIn(steps[t][i].text) : i \in 1..Len(steps[t])}

\* C15: within one research session, every citation of the same source
\* carries the same token, whatever query or result position retrieved it.
C15Claim ==
    \A t \in Threads : \A c, d \in Citations(t) :
       c.source = d.source => c.token = d.token

\* C16: within one research session, no token is carried by two distinct
\* sources, also when the direct query and an alternative query are the same
\* string and return different results at the same position.
C16Claim ==
    \A t \in Threads : \A c, d \in Citations(t) :
       c.token = d.token => c.source = d.source

\* C17: a research request reads only its own session state: the start time
\* its total_research_time is counted from is the one the request itself
\* wrote, also when another request runs at the same time.
C17Claim ==
    \A t \in Threads :
       response[t].start_time_of # 0 => response[t].start_time_of = t

\* The fragments of coll that pass the default relevance floor for query.
PassingFloor(coll, query) ==
    {e \in Entries(coll) :
        FormatResult(e, query).similarity >= One - DefaultScoreThreshold}

\* C18: when the collection holds a fragment that passes the relevance floor
\* for the query, the local search tool returns formatted results that
\* contain such a fragment, not the nothing-found text nor an error text.
C18Claim ==
    \A t \in Threads :
       (/\ agent_pc[t] = "tool_done"
        /\ tool[t].op = "local"
        /\ PassingFloor(collection, tool[t].query) # {})
       => /\ text[t].kind = "results"
          /\ \E j \in 1..Len(text[t].items) :
                \E e \in PassingFloor(collection, tool[t].query) :
                   text[t].items[j].doc.page_content = e.page_content

\* The search tool gave nothing in the searches thread t's web tool call has
\* made: each raised or came to no result.
GaveNothing(t) ==
    /\ tool[t].op = "web"
    /\ outcomes[t] # <<>>
    /\ \A i \in 1..Len(outcomes[t]) :
          outcomes[t][i].raised \/ outcomes[t][i].results = <<>>

\* C19: when the search tool raises or returns nothing in every search of a
\* web tool call, no web document comes of it, the call returns the text "No
\* relevant web resources found." and no error text, add_documents is not
\* called and the collection is what it was when the call began.
C19Theorem ==
    \A t \in Threads :
       GaveNothing(t) =>
          /\ web_docs[t] = <<>>
          /\ pc[t] = "idle"
          /\ collection = tool[t].before
          /\ agent_pc[t] \in {"web_search", "tool_done"}
          /\ agent_pc[t] = "tool_done" => text[t] = NothingFoundText

\* A web tool call has returned after a search in which the tool raised and a
\* search in which it answered without a result.
C19Witness ==
    \E t \in Threads :
       /\ GaveNothing(t)
       /\ agent_pc[t] = "tool_done"
       /\ text[t] = NothingFoundText
       /\ \E i \in 1..Len(outcomes[t]) : outcomes[t][i].raised
       /\ \E i \in 1..Len(outcomes[t]) : ~outcomes[t][i].raised

\* C20: when a web tool call returns a text formatted from freshly fetched
\* web fragments, every fragment in the text is in the collection.
C20Claim ==
    \A t \in Threads :
       (/\ agent_pc[t] = "tool_done"
        /\ tool[t].op = "web"
        /\ outcomes[t] # <<>>
        /\ text[t].kind = "results")
       => \A j \in 1..Len(text[t].items) :
             \E e \in Entries(collection) :
                e.id = GenerateDocumentId(text[t].items[j].doc.page_content,
                                          text[t].items[j].doc.metadata)

\* C21: clearing or resetting an empty collection is no error and leaves it
\* empty, and a clear or a reset that met no backend failure leaves an empty
\* collection that is open, with the cosine metric and the index settings it
\* had; as long as the collection exists it has that configuration. (A reset
\* whose create_collection fails after its delete_collection went through
\* returns False and leaves no collection until the next reset: the claim is
\* about the clears and resets that went through.)
C21Theorem ==
    /\ collection_exists =>
          /\ collection_metadata.space = "cosine"
          /\ collection_metadata = CreatedMetadata
    /\ \A t \in Threads :
          (pc[t] = "done" /\ ~backend_error[t]) =>
             /\ call[t].op = "reset_collection" =>
                   /\ ret[t]
                   /\ collection = EmptyBag
                   /\ collection_exists
             /\ (call[t].op = "rebuild_from_documents" /\ call[t].documents = <<>>) =>
                   /\ ret[t]
                   /\ collection = EmptyBag
                   /\ collection_exists
    /\ \A t \in Threads :
          (pc[t] = "done" /\ call[t].op = "reset_collection" /\ ret[t]) =>
             /\ collection = EmptyBag
             /\ collection_exists

\* A reset of an empty collection has returned True.
C21Witness ==
    \E t \in Threads :
       /\ pc[t] = "done"
       /\ call[t].op = "reset_collection"
       /\ pre[t] = EmptyBag
       /\ ret[t]
       /\ collection = EmptyBag
       /\ collection_metadata = ResetMetadata

C23Claim ==
    \A t \in Threads :
       (Returned(t, "delete_by_source") /\ backend_up) =>
          /\ \A e \in Entries(pre[t]) :
                PrimarySource(e.metadata) # call[t].source =>
                   e \in Entries(collection) /\ collection[e] = pre[t][e]
          /\ (\A e \in Entries(pre[t]) : PrimarySource(e.metadata) # call[t].source) =>
                collection = pre[t] /\ ret[t]

\* The positions of docs, among the first n, whose trimmed text is shorter
\* than the minimum.
ShortPositions(docs, n) ==
    {i \in 1..Min(n, Len(docs)) : StripLen(docs[i].page_content) < MinTextLen}

\* C24: no fragment whose trimmed text is shorter than 10 characters is ever
\* staged or stored; in add_documents each such input processed so far is
\* counted as skipped and not as added; the call goes through all its inputs,
\* and when it returns True, as it does when no flush failed, every other
\* input of the call is in the collection.
C24Theorem ==
    /\ \A e \in Entries(collection) : StripLen(e.page_content) >= MinTextLen
    /\ \A t \in Threads :
          /\ \A i \in 1..Len(batch[t]) : StripLen(batch[t][i].page_content) >= MinTextLen
          /\ (call[t].op = "add_documents" /\ pc[t] \in {"add_loop", "done"}) =>
                LET docs  == call[t].documents
                    short == ShortPositions(docs, idx[t] - 1)
                IN  /\ skipped_count[t] >= Cardinality(short)
                    /\ added_count[t] <= (idx[t] - 1) - Cardinality(short)
                    /\ pc[t] = "done" => idx[t] = Len(docs) + 1
                    /\ (pc[t] = "done" /\ ret[t]) =>
                          \A i \in 1..Len(docs) :
                             i \notin short => IdAt(docs, i) \in CollectionIds(collection)
                    /\ (/\ pc[t] = "done"
                        /\ ~backend_error[t]
                        /\ \A i, j \in 1..Len(docs) :
                              (i < j /\ i \notin short) => IdAt(docs, i) # IdAt(docs, j))
                       => ret[t]

\* add_documents has returned True for a list in which a fragment with too
\* short a text comes before a valid one: the short one was skipped and is not
\* stored, the valid one is stored.
C24Witness ==
    \E t \in Threads :
       /\ Returned(t, "add_documents")
       /\ ret[t]
       /\ \E i, j \in 1..Len(call[t].documents) :
             /\ i < j
             /\ i \in ShortPositions(call[t].documents, Len(call[t].documents))
             /\ j \notin ShortPositions(call[t].documents, Len(call[t].documents))
             /\ IdAt(call[t].documents, i) \notin CollectionIds(collection)
             /\ IdAt(call[t].documents, j) \in CollectionIds(collection)
             /\ IdAt(call[t].documents, j) \notin CollectionIds(pre[t])
       /\ skipped_count[t] >= 1

\* coll holds an entry with the text and the primary source of doc.
Holds(coll, doc) ==
    \E e \in Entries(coll) :
       /\ e.page_content = doc.page_content
       /\ PrimarySource(e.metadata) = PrimarySource(doc.metadata)

RECURSIVE SumOf(_)
SumOf(f) ==
    IF DOMAIN f = {} THEN 0
    ELSE LET x == CHOOSE y \in DOMAIN f : TRUE
         IN  f[x] + SumOf([y \in DOMAIN f \ {x} |-> f[y]])

\* The distinct primary source keys among all stored fragments.
StoredSources(coll) == {PrimarySource(e.metadata) : e \in Entries(coll)}

\* C25: the statistics agree with the collection: whenever get_document_stats
\* or get_collection_info has returned its figures (no error), the total count
\* is the number of stored fragments, the unique-source count is the number of
\* distinct primary source keys among all stored fragments (an empty
\* collection's answer without that key standing for zero), and the counts per
\* source type of get_document_stats sum to the total.
C25Claim ==
    \A t \in Threads :
       /\ (Returned(t, "get_document_stats") /\ ~backend_error[t])
             => LET r == results[t][1]
                IN  /\ r.total_documents = CollectionCount(collection)
                    /\ IF "unique_sources" \in DOMAIN r
                          THEN r.unique_sources = Cardinality(StoredSources(collection))
                          ELSE StoredSources(collection) = {}
                    /\ SumOf(r.types) = r.total_documents
       /\ (Returned(t, "get_collection_info") /\ ~backend_error[t])
             => LET r == results[t][1]
                IN  /\ r.count = CollectionCount(collection)
                    /\ r.unique_sources = Cardinality(StoredSources(collection))

\* The searches a web tool call for query makes: the direct one and those of
\* the alternative queries, as keys of the searcher's cache, which holds a
\* search exactly when the search tool has answered it.
SearchesOf(query) ==
    {[query |-> query, num_results |-> DirectNumResults]} \cup
    {[query |-> AltQueries(query)[i], num_results |-> AltNumResults] :
        i \in 1..Len(AltQueries(query))}

\* The web tool call of thread t was answered from the agent's cache with the
\* "no web resources" text, without a search.
AnsweredNothingFromCache(t) ==
    /\ agent_pc[t] = "tool_done"
    /\ tool[t].op = "web"
    /\ outcomes[t] = <<>>
    /\ text[t] = NothingFoundText

\* C28: a failure of the web search is retriable: a web tool call for q that
\* comes after one that found nothing because the search tool raised is not
\* answered with the earlier "no web resources" text: such an answer is
\* repeated from the cache only when the search tool answered every search
\* for q.
C28Claim ==
    \A t \in Threads :
       AnsweredNothingFromCache(t)
          => \A key \in SearchesOf(tool[t].query) : web_cache[key].cached

\* The key of the agent's cache for a tool call.
CacheKeyOf(tl) == [op |-> tl.op, query |-> tl.query]

\* Thread t begins a tool call in this step.
ToolCallBegins(t) == agent_pc[t] = "session" /\ tool'[t] # NoTool

\* A tool call of thread t ends in this step with its text.
ToolCallEnds(t) == agent_pc[t] # "tool_done" /\ agent_pc'[t] = "tool_done"

\* C29: with requests served one after the other, a hit of the agent's query
\* cache has no side effects: a tool call that begins while the cache holds a
\* text for its query ends at once with exactly that text, having made no web
\* search and changed neither the collection, the store's calls nor a cache;
\* a text in the cache is never replaced, and it is put there only by a call
\* that ends with that text, which is not an error text, so that the text of
\* a hit is the one the first non-error call for the query returned; a call
\* that ends with an error text leaves the cache as it was. (The local tool
\* never ends without an error, so that every hit is one of the web tool.)
C29Step ==
    /\ \A t \in Threads :
          (/\ ToolCallBegins(t)
           /\ CacheKeyOf(tool'[t]) \in DOMAIN search_cache
           /\ search_cache[CacheKeyOf(tool'[t])] # NoText)
             => /\ agent_pc'[t] = "tool_done"
                /\ text'[t] = search_cache[CacheKeyOf(tool'[t])]
                /\ outcomes'[t] = <<>>
                /\ collection' = collection
                /\ pc' = pc
                /\ search_cache' = search_cache
                /\ web_cache' = web_cache
    /\ \A k \in DOMAIN search_cache :
          /\ search_cache[k] # NoText => search_cache'[k] = search_cache[k]
          /\ search_cache'[k] # search_cache[k]
                => \E t \in Threads :
                      /\ ToolCallEnds(t)
                      /\ CacheKeyOf(tool[t]) = k
                      /\ text'[t] = search_cache'[k]
                      /\ text'[t] # ErrorText
    /\ \A t \in Threads :
          (ToolCallEnds(t) /\ text'[t] = ErrorText) => search_cache' = search_cache

C29Theorem == [][C29Step]_vars

\* A web tool call answered from the cache with the formatted results of an
\* earlier call, in a collection that call has ingested into.
C29Witness ==
    \E t \in Threads :
       /\ agent_pc[t] = "tool_done"
       /\ tool[t].op = "web"
       /\ outcomes[t] = <<>>
       /\ text[t].kind = "results"
       /\ text[t] = search_cache[CacheKeyOf(tool[t])]
       /\ collection = tool[t].before
       /\ \E i \in 1..Len(text[t].items) :
             Holds(collection, text[t].items[i].doc)

\* A text that is the error message of a failed fetch, as _enhance_content
\* leaves it.
IsFetchError(page_content) ==
    \E u \in Urls, q \in ToolQueries :
       page_content = EnhanceContent(FetchErrorOf(u), q)

\* C30: a failed fetch of a page never becomes the content of a fragment: no
\* fragment of the collection has the error message of fetch_webpage_content
\* as its text.
C30Claim == \A e \in Entries(collection) : ~IsFetchError(e.page_content)

\* The source strings in the observations of the steps ss.
ObservedTokens(ss) ==
    {tk \in {<<"WEB", WebChunkId(q, i)>> : q \in ToolQueries, i \in 0..2}
            \cup {<<"LOCAL", ChunkName(i)>> : i \in 0..1} :
        \E i \in 1..Len(ss) : \E j \in 1..Len(ss[i].text.items) :
           ss[i].text.items[j].token = tk}
    \cup {tk \in {AnalysisToken} : \E i \in 1..Len(ss) : ss[i].text.kind = "analysis"}

\* Thread t has the response of its request, whose steps it still holds.
Responded(t) == agent_pc[t] = "idle" /\ response[t].question # ""

\* C26: the sources_used of a research result is in ascending order without a
\* repeated entry, and its entries are exactly the LOCAL- and WEB- tokens in
\* the observations of the steps of that request, with "ANALYSIS-synthesis"
\* exactly when one of these observations holds the marker of an analysis (an
\* analysis that raised returns an error text without it), however many
\* observations hold the same token.
C26Theorem ==
    \A t \in Threads :
       Responded(t)
          => LET su == response[t].sources_used
             IN  /\ \A i, j \in 1..Len(su) :
                       i < j => TokenRank(su[i]) < TokenRank(su[j])
                 /\ {su[i] : i \in 1..Len(su)} = ObservedTokens(steps[t])

\* A result of three steps of which two hold the same WEB- tokens and one is
\* an analysis.
C26Witness ==
    \E t \in Threads :
       /\ Responded(t)
       /\ Len(steps[t]) = 3
       /\ Len(response[t].sources_used) = 3
       /\ \E i, j \in 1..3 :
             /\ i < j
             /\ steps[t][i].text.kind = "results"
             /\ steps[t][i].text = steps[t][j].text
       /\ steps[t][2].text.kind = "analysis"

====
